---- MODULE Spec2Model ----
\* Recognition-and-ledger core of the attendance system:
\*   src/face1.py              FaceRecognitionThread, AttendanceSystem
\*   src/attendance_manager.py AttendanceManager
EXTENDS Integers, Sequences, FiniteSets, TLC

\* ------------------------------------------------------------------ bounds
MaxQueue == 1      \* identity events posted to the GUI thread and not yet handled
MaxFaces == 1      \* faces detected in one frame
MaxGallery == 3    \* gallery entries the matcher is exercised with
MaxRuns == 2       \* recognition threads started by one process

\* ------------------------------------------------------- program constants
SecondsPerDay == 86400   \* datetime.timedelta.seconds is the remainder below one day
DedupWindow == 30        \* face1.py:1536
\* Lengths are kept in units of 1/20 of the encoding space's unit, so that the
\* default threshold 0.45 and the upper limit 1.0 are integers.
DefaultThreshold == 9    \* 0.45, face1.py:1460
ThresholdLimit == 20     \* 1.0,  face1.py:1457
\* Python floats are modelled in fixed point with FloatScale units per 1.0.
FloatScale == 1000000

Unknown == "Unknown"
\* Person labels, in the order galleries are filled with them.
LabelSeq == <<"A", "B", "C", "D", "E">>
\* Thresholds the matcher is exercised with: 0.0, 0.45, 0.9, 1.0.
MatchThresholds == {0, 9, 18, 20}

\* Face encodings: points of the plane (the library uses 128 dimensions).
Vectors == {<<0, 0>>, <<0, 18>>, <<18, 0>>, <<0, 9>>, <<40, 40>>}
\* The faces that come before the camera: student A, student B, a stranger.
CameraFaces == {<<0, 0>>, <<0, 18>>, <<40, 40>>}

\* The instants at which the wall clock is observed, in seconds since the
\* midnight that starts day 0: 00:00:00 and 00:00:31 of day 0, 00:00:05 of day 1.
Instants == {0, 31, 86405}

\* Threshold texts typed into the settings field, as the number they parse to
\* (21 stands for a text that is out of range or not a number).
ThresholdInputs == {9, 21}

VARIABLES
    now,                   \* datetime.now()
    present_students,      \* dict name -> timestamp, as its items in insertion order
    known_face_encodings,  \* active gallery, vectors
    known_face_names,      \* active gallery, labels
    current_encoding_set,  \* name of the loaded dataset, <<>> when none
    camera_active,
    face_recognition_thread,     \* the thread object: pc, running, video_capture, gallery
    fg_pc,                 \* "idle", or "waiting" inside FaceRecognitionThread.stop
    pending,               \* update_attendance signals queued to the GUI thread
    attendance_files,      \* attendance_records/: date -> saved record
    encoding_sets,         \* encodings/: dataset name -> pickled gallery
    last_op,               \* what the last ledger handler did (observation only)
    m_pc, m_encodings, m_names, m_query, m_threshold, m_name,  \* matcher exercised alone
    q_call, q_result,      \* a query of AttendanceManager and what it returned
    r_count,               \* recognition threads started by this process
    r_opened,              \* isOpened() of the capture of the current run
    r_releases,            \* release() calls made on the capture of the current run
    r_misused,             \* read() was called on that capture after a release()
    r_last,                \* how the last pass of the capture loop ended
    r_closing,             \* closeEvent is being handled
    load_thread,           \* the LoadStudentsThread of process_new_encoding_set
    encoding_sets_list,    \* the names shown in the list of datasets
    frame                  \* the frame run() is processing and what it emitted for it

ledger_vars == <<now, present_students, known_face_encodings,
                 known_face_names, current_encoding_set, camera_active, face_recognition_thread, fg_pc, pending, attendance_files,
                 encoding_sets, last_op>>
match_vars == <<m_pc, m_encodings, m_names, m_query, m_threshold, m_name>>
query_vars == <<q_call, q_result>>
run_vars == <<r_count, r_opened, r_releases, r_misused, r_last, r_closing>>
build_vars == <<load_thread, encoding_sets_list>>
frame_vars == <<frame>>
vars == <<ledger_vars, match_vars, query_vars, run_vars, build_vars, frame_vars>>

\* ------------------------------------------------------------ pure helpers
Range(s) == {s[i] : i \in 1..Len(s)}

\* All orders in which the elements of a set can be listed (list(set(...))).
ListsOfSet(S) ==
    {s \in [1..Cardinality(S) -> S] : \A i, j \in 1..Cardinality(S) : s[i] = s[j] => i = j}

\* datetime.strftime("%Y-%m-%d %H:%M:%S"): the text names a day and a time of day.
strftime(t) == <<t \div SecondsPerDay, t % SecondsPerDay>>
\* datetime.strptime(text, "%Y-%m-%d %H:%M:%S")
strptime(s) == s[1] * SecondsPerDay + s[2]
\* date.strftime('%Y-%m-%d')
date_str(t) == t \div SecondsPerDay
\* timedelta.seconds: the seconds component, the days component is dropped.
timedelta_seconds(d) == d % SecondsPerDay

\* face_recognition.face_distance for one gallery entry; kept squared, which
\* preserves order and equality of the non-negative distances.
SqDist(a, b) == (a[1] - b[1]) * (a[1] - b[1]) + (a[2] - b[2]) * (a[2] - b[2])
face_distance(encodings, q) == [i \in 1..Len(encodings) |-> SqDist(encodings[i], q)]

\* numpy.argmin: index of the first minimum.
RECURSIVE argmin_from(_, _, _)
argmin_from(d, i, best) ==
    IF i > Len(d) THEN best
    ELSE argmin_from(d, i + 1, IF d[i] < d[best] THEN i ELSE best)
argmin(d) == argmin_from(d, 2, 1)

\* The threshold test of the recognition loop, face1.py:80.
WithinThresholdInclusive(dist, threshold) == dist <= threshold * threshold
WithinThreshold(dist, threshold) == dist < threshold * threshold

\* The body of the per-face loop, face1.py:72-88.
match(encodings, names, q, threshold) ==
    IF Len(encodings) > 0
    THEN LET face_distances == face_distance(encodings, q)
             best_match_index == argmin(face_distances)
         IN IF WithinThreshold(face_distances[best_match_index], threshold)
            THEN names[best_match_index]
            ELSE Unknown
    ELSE Unknown

\* ------------------------------------------------- dict present_students
DictHas(d, k) == \E i \in 1..Len(d) : d[i].name = k
DictGet(d, k) == d[CHOOSE i \in 1..Len(d) : d[i].name = k].timestamp
DictKeys(d) == [i \in 1..Len(d) |-> d[i].name]
\* d[k] = v appending one more item whether or not the key is there.
DictAppend(d, k, v) == Append(d, [name |-> k, timestamp |-> v])
\* d[k] = v: an existing key keeps its place, a new key goes last.
DictSet(d, k, v) ==
    IF DictHas(d, k)
    THEN [i \in 1..Len(d) |-> IF d[i].name = k THEN [name |-> k, timestamp |-> v] ELSE d[i]]
    ELSE Append(d, [name |-> k, timestamp |-> v])

\* ------------------------------------------------------ AttendanceManager
\* x / y in floating point, rounded to the nearest representable value.
FloatDiv(x, y) == (2 * x * FloatScale + y) \div (2 * y)

RoundedPercentage(present, all) ==
    IF Len(all) > 0
    THEN ((2000 * Len(present) + Len(all)) \div (2 * Len(all))) * (FloatScale \div 10)
    ELSE 0
\* attendance_manager.py:30
attendance_percentage(present, all) ==
    IF Len(all) > 0 THEN FloatDiv(Len(present), Len(all)) * 100 ELSE 0

AllAsAbsent(all, present) == Range(all)
\* attendance_manager.py:27, before the set is turned into a list
absent_set(all, present) == Range(all) \ Range(present)

\* The record save_attendance writes, attendance_manager.py:23-31. absent is
\* the order in which list() enumerates the set of absent students.
attendance_data(date, present, all, absent) ==
    [date |-> date_str(date),
     present_students |-> present,
     all_students |-> all,
     absent_students |-> absent,
     total_students |-> Len(all),
     present_count |-> Len(present),
     attendance_percentage |-> attendance_percentage(present, all)]

\* save_attendance: the file of that date is created or overwritten.
save_attendance(files, date, present, all, absent) ==
    [d \in DOMAIN files \cup {date_str(date)} |->
        IF d = date_str(date) THEN attendance_data(date, present, all, absent) ELSE files[d]]

\* get_attendance: the record in a one-element list, <<>> for None.
get_attendance(files, date) ==
    IF date_str(date) \in DOMAIN files THEN <<files[date_str(date)]>> ELSE <<>>

ClearKeepsFile(files, date) == files
\* clear_attendance, the files it leaves ...
clear_attendance_files(files, date) ==
    [d \in DOMAIN files \ {date_str(date)} |-> files[d]]
\* ... and the value it returns.
clear_attendance_result(files, date) == date_str(date) \in DOMAIN files

\* --------------------------------------------------------------- the state
NoThread == [pc |-> "none", running |-> FALSE, video_capture |-> "None",
             encodings |-> <<>>, names |-> <<>>, threshold |-> 0]

\* The last handler that touched the ledger: "sighting" (checked: the state of
\* the duplicate prevention box it read; flag: it recorded the sighting),
\* "clear" (flag: the value AttendanceManager.clear_attendance returned), or
\* "other".
Op(op, name, checked, flag) == [op |-> op, name |-> name, checked |-> checked, flag |-> flag]
OtherOp == Op("other", "", FALSE, FALSE)

\* The datasets found on disk when the program starts.
StoredSets ==
    [cs101 |-> [encodings |-> << <<0, 0>>, <<0, 18>>, <<18, 0>> >>, names |-> <<"A", "B", "C">>],
     empty |-> [encodings |-> <<>>, names |-> <<>>]]

\* No dataset is being built.
NoLoadThread == [pc |-> "none", dataset_name |-> "", directory |-> <<>>,
                 known_face_encodings |-> <<>>, known_face_names |-> <<>>,
                 loaded_count |-> 0, progress |-> <<>>]
\* No frame was read yet.
NoFrame == [face_encodings |-> <<>>, update_attendance |-> <<>>, update_frame |-> <<>>]

\* A dataset directory has an encodings.pkl, whatever is in it.
HasPickle(dir) == "encodings" \in DOMAIN dir \/ "garbage" \in DOMAIN dir
\* info.json is there and json.load cannot read it.
InfoUnreadable(dir) == "info" \in DOMAIN dir /\ ~dir.info.readable
\* refresh_encoding_sets: the directories that have an encodings.pkl get an
\* item; reading info.json is inside the try block, so one that cannot be
\* read leaves the directory out of the list.
refresh_encoding_sets(dirs) ==
    {ds \in DOMAIN dirs : HasPickle(dirs[ds]) /\ ~InfoUnreadable(dirs[ds])}

BuildIdle ==
    /\ load_thread = NoLoadThread
    /\ frame = NoFrame

MatchIdle ==
    /\ m_pc = "off" /\ m_encodings = <<>> /\ m_names = <<>>
    /\ m_query = <<0, 0>> /\ m_threshold = 0 /\ m_name = Unknown

\* AttendanceSystem.__init__ on a machine that has the two datasets and no
\* attendance record yet.
LedgerInit ==
    /\ now = 0
    /\ present_students = <<>>
    /\ known_face_encodings = <<>>
    /\ known_face_names = <<>>
    /\ current_encoding_set = <<>>
    /\ camera_active = FALSE
    /\ face_recognition_thread = NoThread
    /\ fg_pc = "idle"
    /\ pending = <<>>
    /\ attendance_files = <<>>
    /\ encoding_sets = StoredSets
    /\ encoding_sets_list = refresh_encoding_sets(StoredSets)
    /\ last_op = OtherOp

\* No query in progress.
NoCall == [fn |-> "none", period |-> "", student_name |-> "",
           start_date |-> <<>>, end_date |-> <<>>]
QueryIdle == q_call = NoCall /\ q_result = <<>>

\* No recognition thread was started yet.
RunIdle ==
    /\ r_count = 0 /\ r_opened = FALSE /\ r_releases = 0
    /\ r_misused = FALSE /\ r_last = "none" /\ r_closing = FALSE

Init == LedgerInit /\ MatchIdle /\ QueryIdle /\ RunIdle /\ BuildIdle

\* ------------------------------------------------------------- the clock
Tick ==
    /\ \E t \in Instants : t > now /\ now' = t
    /\ UNCHANGED <<present_students, known_face_encodings,
                   known_face_names, current_encoding_set, camera_active, face_recognition_thread, fg_pc, pending, attendance_files,
                   encoding_sets, last_op>>
    /\ UNCHANGED <<match_vars, query_vars, run_vars, build_vars, frame_vars>>

\* --------------------------------------------------- foreground handlers
\* open() and pickle.load() of the encodings.pkl of a listed dataset; what
\* cannot be opened or read raises like a dict without 'encodings' does.
pickle_load(dirs, ds) ==
    IF ds \in DOMAIN dirs /\ "encodings" \in DOMAIN dirs[ds]
    THEN dirs[ds] ELSE [garbage |-> TRUE]

\* load_selected_encoding_set with a listed dataset selected. The file is a
\* pickled dict; the two assignments are made in turn inside the try block, so
\* a dict without 'encodings' (or a file that cannot be read at all) changes
\* nothing and a dict without 'names' has replaced the encodings only.
load_selected_encoding_set ==
    /\ fg_pc = "idle"
    /\ \E ds \in encoding_sets_list :
        LET data == pickle_load(encoding_sets, ds)
        IN IF "encodings" \notin DOMAIN data
           THEN UNCHANGED <<known_face_encodings, known_face_names, current_encoding_set>>
           ELSE IF "names" \notin DOMAIN data
           THEN /\ known_face_encodings' = data.encodings
                /\ UNCHANGED <<known_face_names, current_encoding_set>>
           ELSE /\ known_face_encodings' = data.encodings
                /\ known_face_names' = data.names
                /\ current_encoding_set' = <<ds>>
    /\ last_op' = OtherOp
    /\ UNCHANGED <<now, present_students, camera_active,
                   face_recognition_thread, fg_pc, pending, attendance_files,
                   encoding_sets>>
    /\ UNCHANGED <<match_vars, query_vars, run_vars, build_vars, frame_vars>>

\* start_recognition, reached from toggle_camera when the camera is off. Both
\* buttons call toggle_camera and one of them is enabled from the first
\* successful load on (face1.py:1383, 1475-1476, 1491-1492).
start_recognition ==
    /\ fg_pc = "idle"
    /\ current_encoding_set # <<>>
    /\ ~camera_active
    /\ IF known_face_encodings = <<>>
       THEN /\ last_op' = OtherOp
            /\ UNCHANGED <<face_recognition_thread, camera_active>>
       ELSE /\ \E input \in ThresholdInputs :
                face_recognition_thread' =
                    [pc |-> "start", running |-> FALSE, video_capture |-> "None",
                     encodings |-> known_face_encodings, names |-> known_face_names,
                     threshold |-> IF 0 <= input /\ input <= ThresholdLimit
                                   THEN input ELSE DefaultThreshold]
            /\ camera_active' = TRUE
            /\ last_op' = OtherOp
    /\ UNCHANGED <<now, present_students, known_face_encodings,
                   known_face_names, current_encoding_set, fg_pc, pending, attendance_files,
                   encoding_sets>>
    /\ UNCHANGED <<match_vars, query_vars, run_vars, build_vars, frame_vars>>

\* stop_recognition up to the wait() inside FaceRecognitionThread.stop:
\* running is cleared, cleanup() releases the camera, the GUI thread blocks.
stop_recognition_begin ==
    /\ fg_pc = "idle"
    /\ camera_active
    /\ face_recognition_thread' =
           [face_recognition_thread EXCEPT !.running = FALSE, !.video_capture = "None"]
    /\ fg_pc' = "waiting"
    /\ UNCHANGED <<now, present_students, known_face_encodings,
                   known_face_names, current_encoding_set, camera_active, pending, attendance_files, encoding_sets, last_op>>
    /\ UNCHANGED <<match_vars, query_vars, run_vars, build_vars, frame_vars>>

\* wait() returns once run() has returned; stop_recognition finishes.
stop_recognition_end ==
    /\ fg_pc = "waiting"
    /\ face_recognition_thread.pc = "done"
    /\ face_recognition_thread' = NoThread
    /\ fg_pc' = "idle"
    /\ camera_active' = FALSE
    /\ last_op' = OtherOp
    /\ UNCHANGED <<now, present_students, known_face_encodings,
                   known_face_names, current_encoding_set, pending, attendance_files,
                   encoding_sets>>
    /\ UNCHANGED <<match_vars, query_vars, run_vars, build_vars, frame_vars>>

\* ------------------------------------------------ FaceRecognitionThread
\* run() up to the loop: running is set, the camera is opened; when it cannot
\* be opened run() returns through the finally clause.
ThreadOpenCamera ==
    /\ face_recognition_thread.pc = "start"
    /\ \E opened \in BOOLEAN :
        face_recognition_thread' =
            IF opened
            THEN [face_recognition_thread EXCEPT
                      !.pc = "loop", !.running = TRUE, !.video_capture = "open"]
            ELSE [face_recognition_thread EXCEPT
                      !.pc = "done", !.running = TRUE, !.video_capture = "None"]
    /\ UNCHANGED <<now, present_students, known_face_encodings,
                   known_face_names, current_encoding_set, camera_active, fg_pc, pending, attendance_files, encoding_sets, last_op>>
    /\ UNCHANGED <<match_vars, query_vars, run_vars, build_vars, frame_vars>>

\* The frames the camera can deliver, as the encodings of the faces found.
Frames == UNION {[1..n -> CameraFaces] : n \in 0..MaxFaces}

\* A signal emitted to a slot of another thread is posted to the event queue
\* of that thread, behind the events already there (face1.py:1470).
postEventInFront(queue, signals) == signals \o queue
postEvent(queue, signals) == queue \o signals

\* The faces that get an update_attendance signal: those whose nearest entry
\* is within the threshold, face1.py:80-86.
EveryFace(name) == TRUE
Recognised(name) == name # Unknown

\* The update_attendance signals of one frame, face1.py:72-88.
RECURSIVE FrameSignals(_, _, _)
FrameSignals(thread, face_encodings, i) ==
    IF i > Len(face_encodings) THEN <<>>
    ELSE LET name == match(thread.encodings, thread.names, face_encodings[i], thread.threshold)
         IN (IF Recognised(name)
             THEN <<[name |-> name, timestamp |-> strftime(now)]>>
             ELSE <<>>) \o FrameSignals(thread, face_encodings, i + 1)

\* One pass of the while loop with a frame read.
ThreadProcessFrame ==
    /\ face_recognition_thread.pc = "loop"
    /\ face_recognition_thread.running
    /\ \E face_encodings \in Frames :
        LET signals == FrameSignals(face_recognition_thread, face_encodings, 1)
        IN /\ Len(pending) + Len(signals) <= MaxQueue
           /\ pending' = postEvent(pending, signals)
    /\ UNCHANGED <<now, present_students, known_face_encodings,
                   known_face_names, current_encoding_set, camera_active, face_recognition_thread, fg_pc, attendance_files,
                   encoding_sets, last_op>>
    /\ UNCHANGED <<match_vars, query_vars, run_vars, build_vars, frame_vars>>

\* The loop test fails after stop(); run() returns through the finally clause.
ThreadLoopExit ==
    /\ face_recognition_thread.pc = "loop"
    /\ ~face_recognition_thread.running
    /\ face_recognition_thread' =
           [face_recognition_thread EXCEPT !.pc = "done", !.video_capture = "None"]
    /\ UNCHANGED <<now, present_students, known_face_encodings,
                   known_face_names, current_encoding_set, camera_active, fg_pc, pending, attendance_files, encoding_sets, last_op>>
    /\ UNCHANGED <<match_vars, query_vars, run_vars, build_vars, frame_vars>>

\* ------------------------------------------------------------- the ledger
WindowNotPassed(stored) == timedelta_seconds(now - strptime(stored)) < DedupWindow
\* The elapsed-time test of update_attendance_record, face1.py:1536.
WindowPassed(stored) == timedelta_seconds(now - strptime(stored)) > DedupWindow

\* The condition of update_attendance_record, face1.py:1534-1536; checked is
\* what self.duplicate_prevention.isChecked() returns.
ShouldRecord(name, checked) ==
    \/ ~checked
    \/ ~DictHas(present_students, name)
    \/ WindowPassed(DictGet(present_students, name))

LastKeyOnly(d) == <<d[Len(d)].name>>
\* list(self.present_students.keys()), face1.py:1544
present_list(d) == DictKeys(d)

\* The slot update_attendance_record run for the oldest queued signal. The
\* user can tick and untick the "Prevent duplicate entries" box (face1.py:1014,
\* ticked at start) at any time between two signals, so the slot finds it in
\* either state.
update_attendance_record ==
    /\ fg_pc = "idle"
    /\ pending # <<>>
    /\ pending' = Tail(pending)
    /\ \E duplicate_prevention \in BOOLEAN :
       LET name == Head(pending).name
           timestamp == Head(pending).timestamp
       IN IF ShouldRecord(name, duplicate_prevention)
          THEN /\ present_students' = DictSet(present_students, name, timestamp)
               /\ \E absent \in ListsOfSet(absent_set(known_face_names,
                                                      present_list(present_students'))) :
                    attendance_files' =
                        save_attendance(attendance_files, now,
                                        present_list(present_students'),
                                        known_face_names, absent)
               /\ last_op' = Op("sighting", name, duplicate_prevention, TRUE)
          ELSE /\ last_op' = Op("sighting", name, duplicate_prevention, FALSE)
               /\ UNCHANGED <<present_students, attendance_files>>
    /\ UNCHANGED <<now, known_face_encodings, known_face_names,
                   current_encoding_set, camera_active,
                   face_recognition_thread, fg_pc, encoding_sets>>
    /\ UNCHANGED <<match_vars, query_vars, run_vars, build_vars, frame_vars>>

\* AttendanceSystem.clear_attendance, the user confirming.
clear_attendance ==
    /\ fg_pc = "idle"
    /\ present_students' = <<>>
    /\ attendance_files' = clear_attendance_files(attendance_files, now)
    /\ last_op' = Op("clear", "", FALSE, clear_attendance_result(attendance_files, now))
    /\ UNCHANGED <<now, known_face_encodings, known_face_names,
                   current_encoding_set, camera_active,
                   face_recognition_thread, fg_pc, pending, encoding_sets>>
    /\ UNCHANGED <<match_vars, query_vars, run_vars, build_vars, frame_vars>>

\* The process ends (closeEvent, or the process is killed) and the program
\* is started again: __init__ runs, the files stay.
Restart ==
    /\ present_students' = <<>>
    /\ known_face_encodings' = <<>>
    /\ known_face_names' = <<>>
    /\ current_encoding_set' = <<>>
    /\ camera_active' = FALSE
    /\ face_recognition_thread' = NoThread
    /\ fg_pc' = "idle"
    /\ pending' = <<>>
    /\ last_op' = OtherOp
    /\ load_thread' = NoLoadThread
    /\ encoding_sets_list' = refresh_encoding_sets(encoding_sets)
    /\ frame' = NoFrame
    /\ UNCHANGED <<now, attendance_files, encoding_sets>>
    /\ UNCHANGED <<match_vars, query_vars, run_vars>>

Next ==
    \/ Tick
    \/ load_selected_encoding_set
    \/ start_recognition
    \/ stop_recognition_begin
    \/ stop_recognition_end
    \/ ThreadOpenCamera
    \/ ThreadProcessFrame
    \/ ThreadLoopExit
    \/ update_attendance_record
    \/ clear_attendance
    \/ Restart

Spec == Init /\ [][Next]_vars

\* ------------------------------------------------- the matcher on its own
\* Any gallery of up to MaxGallery entries, any query and threshold.
MatchInit ==
    /\ LedgerInit /\ QueryIdle /\ RunIdle /\ BuildIdle
    /\ m_pc = "input"
    /\ \E n \in 0..MaxGallery :
        /\ m_encodings \in [1..n -> Vectors]
        /\ m_names = SubSeq(LabelSeq, 1, n)
    /\ m_query \in Vectors
    /\ m_threshold \in MatchThresholds
    /\ m_name = Unknown

\* The per-face loop body applied to the query.
MatchFace ==
    /\ m_pc = "input"
    /\ m_name' = match(m_encodings, m_names, m_query, m_threshold)
    /\ m_pc' = "matched"
    /\ UNCHANGED <<m_encodings, m_names, m_query, m_threshold>>
    /\ UNCHANGED <<ledger_vars, query_vars, run_vars, build_vars, frame_vars>>

\* The next face is presented.
MatchReset ==
    /\ m_pc = "matched"
    /\ m_pc' = "input"
    /\ m_name' = Unknown
    /\ m_query' \in Vectors
    /\ UNCHANGED <<m_encodings, m_names, m_threshold>>
    /\ UNCHANGED <<ledger_vars, query_vars, run_vars, build_vars, frame_vars>>

MatchNext == MatchFace \/ MatchReset

SpecMatch == MatchInit /\ [][MatchNext]_vars

\* ================================================================ claims
\* Distances from the query to the gallery the matcher was given (squared).
m_distances == {SqDist(m_encodings[i], m_query) : i \in 1..Len(m_encodings)}
m_nearest(i) == \A d \in m_distances : SqDist(m_encodings[i], m_query) <= d
m_limit == m_threshold * m_threshold

\* C1 as stated: the match is Unknown when the gallery is empty or the minimum
\* distance is greater than the threshold, and the label of a nearest entry
\* otherwise, a minimum distance equal to the threshold included.
C1_InclusiveBoundary ==
    m_pc = "matched" =>
        IF m_distances = {} \/ \A d \in m_distances : d > m_limit
        THEN m_name = Unknown
        ELSE \E i \in 1..Len(m_encodings) : m_nearest(i) /\ m_name = m_names[i]

\* C1 amended: the match is Unknown when the gallery is empty or the minimum
\* distance is greater than or equal to the threshold, and the label of a
\* nearest entry otherwise; a minimum distance equal to the threshold is no match.
C1_ExclusiveBoundary ==
    m_pc = "matched" =>
        IF m_distances = {} \/ \A d \in m_distances : d >= m_limit
        THEN m_name = Unknown
        ELSE \E i \in 1..Len(m_encodings) : m_nearest(i) /\ m_name = m_names[i]

\* A face at exactly the threshold distance from its nearest entry was matched.
C1_Witness ==
    /\ m_pc = "matched"
    /\ m_threshold > 0
    /\ \E i \in 1..Len(m_encodings) :
        m_nearest(i) /\ SqDist(m_encodings[i], m_query) = m_limit
    /\ m_name = Unknown

\* Seconds from the timestamp stored for name to the moment the slot runs.
ElapsedSinceStored(name) == now - strptime(DictGet(present_students, name))

C3_SightingOutsideWindowRecorded ==
    [][(/\ update_attendance_record
        /\ DictHas(present_students, Head(pending).name)
        /\ strptime(Head(pending).timestamp)
             - strptime(DictGet(present_students, Head(pending).name)) >= 30)
       => (/\ last_op'.flag
           /\ DictGet(present_students', Head(pending).name) = Head(pending).timestamp)]_vars

NoDuplicates(s) == \A i, j \in 1..Len(s) : s[i] = s[j] => i = j

\* C4: in every saved record each label is listed at most once among the
\* present students, and present_count counts each person once.
C4_PresentListedOnce ==
    \A d \in DOMAIN attendance_files :
        /\ NoDuplicates(attendance_files[d].present_students)
        /\ attendance_files[d].present_count
             = Cardinality(Range(attendance_files[d].present_students))

\* A label recorded a second time (its timestamp is later than that of a label
\* inserted after it) is still listed once in today's saved record.
C4_Witness ==
    /\ last_op.op = "sighting" /\ last_op.flag
    /\ Len(present_students) = 2
    /\ strptime(present_students[1].timestamp) > strptime(present_students[2].timestamp)
    /\ date_str(now) \in DOMAIN attendance_files
    /\ attendance_files[date_str(now)].present_count = 2

\* C5: as long as the record of a date exists, its present set only grows,
\* restarts of the process included.
C5_PresentSetGrows ==
    [][\A d \in DOMAIN attendance_files \cap DOMAIN attendance_files' :
          Range(attendance_files[d].present_students)
             \subseteq Range(attendance_files'[d].present_students)]_vars

\* C6: the record of a date lists as present only labels whose sighting was
\* recorded on that date: every write of a date's record adds to its present
\* set nothing but the label of the sighting being recorded.
C6_RecordHoldsOnlyThatDaysLabels ==
    [][update_attendance_record =>
        \A d \in DOMAIN attendance_files' :
            Range(attendance_files'[d].present_students) \subseteq
                (IF d \in DOMAIN attendance_files
                 THEN Range(attendance_files[d].present_students) ELSE {})
                \cup {Head(pending).name}]_vars

\* C7: a recorded sighting leaves today's saved record with present_students
\* equal to the keys of the presence map and all_students equal to the active
\* gallery's labels.
C7_SavedRecordIsFullState ==
    [][(update_attendance_record /\ last_op'.flag)
       => (/\ date_str(now) \in DOMAIN attendance_files'
           /\ LET saved == attendance_files'[date_str(now)]
              IN /\ Range(saved.present_students)
                      = {present_students'[i].name : i \in 1..Len(present_students')}
                 /\ Len(saved.present_students) = Len(present_students')
                 /\ saved.all_students = known_face_names')]_vars

\* A second student has just been recorded and today's record lists both.
C7_Witness ==
    /\ last_op.op = "sighting" /\ last_op.flag
    /\ Len(present_students) = 2
    /\ date_str(now) \in DOMAIN attendance_files
    /\ Range(attendance_files[date_str(now)].present_students) = {"A", "B"}
    /\ attendance_files[date_str(now)].all_students = known_face_names
    /\ known_face_names # <<>>

\* C8: clear removes today's record, so that get_attendance returns None, and
\* leaves the other records alone; it reports True exactly when there was a
\* record, hence False when repeated; it empties the presence map, so the
\* sighting handled next is recorded as the only present label.
C8_Clear ==
    [][/\ clear_attendance =>
            /\ get_attendance(attendance_files', now) = <<>>
            /\ \A d \in DOMAIN attendance_files \ {date_str(now)} :
                   d \in DOMAIN attendance_files'
                   /\ attendance_files'[d] = attendance_files[d]
            /\ last_op'.flag = (get_attendance(attendance_files, now) # <<>>)
            /\ present_students' = <<>>
       /\ (clear_attendance /\ last_op.op = "clear") => ~last_op'.flag
       /\ (update_attendance_record /\ last_op.op = "clear") =>
            /\ last_op'.flag
            /\ present_students' = <<Head(pending)>>]_vars

\* Today's record held a present student and has just been cleared.
C8_Witness ==
    /\ last_op = Op("clear", "", FALSE, TRUE)
    /\ get_attendance(attendance_files, now) = <<>>
    /\ present_students = <<>>
    /\ pending # <<>>

\* C9: in every saved record absent_students lists exactly the labels of
\* all_students that are not in present_students, total_students is the
\* length of all_students and present_count that of present_students.
C9_DerivedFields ==
    \A d \in DOMAIN attendance_files :
        LET r == attendance_files[d]
        IN /\ Range(r.absent_students) = Range(r.all_students) \ Range(r.present_students)
           /\ NoDuplicates(r.absent_students)
           /\ r.total_students = Len(r.all_students)
           /\ r.present_count = Len(r.present_students)

\* A record of A, B, C with A present lists B and C absent.
C9_Witness ==
    \E d \in DOMAIN attendance_files :
        /\ attendance_files[d].all_students = <<"A", "B", "C">>
        /\ attendance_files[d].present_students = <<"A">>
        /\ Range(attendance_files[d].absent_students) = {"B", "C"}

\* C10 as stated: the saved percentage is 100 * present_count / total_students
\* rounded to one decimal place, and 0 when all_students is empty.
C10_RoundedToOneDecimal ==
    \A d \in DOMAIN attendance_files :
        LET r == attendance_files[d]
        IN r.attendance_percentage
             = IF r.total_students = 0 THEN 0
               ELSE ((2000 * r.present_count + r.total_students)
                       \div (2 * r.total_students)) * (FloatScale \div 10)

\* C10 amended: the saved percentage is the floating-point value of
\* present_count / total_students * 100, not rounded (1 of 3 gives 33.33...),
\* and 0 when all_students is empty.
C10_UnroundedPercentage ==
    \A d \in DOMAIN attendance_files :
        LET r == attendance_files[d]
            err == r.attendance_percentage * r.total_students
                     - 100 * FloatScale * r.present_count
        IN IF r.total_students = 0
           THEN r.attendance_percentage = 0
           ELSE err <= 50 * r.total_students /\ -err <= 50 * r.total_students

\* One of three students present is saved as 33.3333, and a record saved
\* with no student known carries 0.
C10_Witness ==
    /\ \E d \in DOMAIN attendance_files :
        /\ attendance_files[d].present_count = 1
        /\ attendance_files[d].total_students = 3
        /\ attendance_files[d].attendance_percentage > 33 * FloatScale + 3 * (FloatScale \div 10)
    /\ \E d \in DOMAIN attendance_files :
        /\ attendance_files[d].total_students = 0
        /\ attendance_files[d].attendance_percentage = 0

\* ============================================== the queries on their own
WeekDays == 7            \* attendance_manager.py:365
MonthDays == 30          \* attendance_manager.py:367
SemesterDays == 180      \* attendance_manager.py:369

\* The day on which the queries are made, and the days that have a record:
\* today, yesterday, and the days on either side of the three period limits.
Today == 200
QueryDays == {Today - 181, Today - 180, Today - 31, Today - 30,
              Today - 8, Today - 7, Today - 1, Today}
\* The wall clock when a query is made: midnight and noon of Today.
QueryInstants == {Today * SecondsPerDay, Today * SecondsPerDay + 43200}
QueryStudents == <<"A", "B">>
\* The present lists a record was saved with.
QueryPresent == {<<"A">>, <<"B", "A">>}
\* period arguments; "all" stands for None and for any other text.
TrendPeriods == {"week", "month", "semester", "all"}
CountPeriods == {"weekly", "monthly", "semester", "all"}
\* start_date and end_date arguments: None, or a date text.
StartDates == {<<>>, <<Today - 30>>, <<Today - 7>>}
EndDates == {<<>>, <<Today - 8>>, <<Today>>}

\* sorted(): ascending order.
RECURSIVE sorted(_)
sorted(S) ==
    IF S = {} THEN <<>>
    ELSE LET least == CHOOSE x \in S : \A y \in S : x <= y
         IN <<least>> \o sorted(S \ {least})

\* (datetime.now() - date).days, date being the midnight that starts a day.
days_diff(t, date) == (t - date * SecondsPerDay) \div SecondsPerDay

TrendSkippedFrom(period, diff) ==
    \/ period = "week" /\ diff >= WeekDays
    \/ period = "month" /\ diff >= MonthDays
    \/ period = "semester" /\ diff >= SemesterDays
\* The period filter of get_attendance_trend, attendance_manager.py:364-370.
TrendSkipped(period, diff) ==
    \/ period = "week" /\ diff > WeekDays
    \/ period = "month" /\ diff > MonthDays
    \/ period = "semester" /\ diff > SemesterDays

\* The period filter of get_daily_attendance_counts, attendance_manager.py:318-324.
CountSkipped(period, diff) ==
    \/ period = "weekly" /\ diff > WeekDays
    \/ period = "monthly" /\ diff > MonthDays
    \/ period = "semester" /\ diff > SemesterDays

\* The files read in sorted order, those the filter skips left out; the sort
\* by date that follows (attendance_manager.py:378) leaves this order as it is.
trend_data(files, t, period) ==
    SelectSeq(sorted(DOMAIN files),
              LAMBDA f : ~TrendSkipped(period, days_diff(t, files[f].date)))
count_data(files, t, period) ==
    SelectSeq(sorted(DOMAIN files),
              LAMBDA f : ~CountSkipped(period, days_diff(t, files[f].date)))

\* get_attendance_trend: <<>> for None, else the dict in a one-element list.
get_attendance_trend(files, t, period) ==
    LET data == trend_data(files, t, period)
    IN IF data = <<>> THEN <<>>
       ELSE <<[dates |-> [i \in 1..Len(data) |-> files[data[i]].date],
               present_counts |-> [i \in 1..Len(data) |-> files[data[i]].present_count]]>>

\* get_daily_attendance_counts: the pair (dates, counts).
get_daily_attendance_counts(files, t, period) ==
    LET data == count_data(files, t, period)
    IN <<[i \in 1..Len(data) |-> files[data[i]].date],
         [i \in 1..Len(data) |-> files[data[i]].present_count]>>

DateInRangeExclusive(date, start_date, end_date) ==
    /\ start_date = <<>> \/ date > start_date[1]
    /\ end_date = <<>> \/ date < end_date[1]
\* The range test of get_student_attendance_stats, attendance_manager.py:63-64.
DateInRange(date, start_date, end_date) ==
    /\ start_date = <<>> \/ date >= start_date[1]
    /\ end_date = <<>> \/ date <= end_date[1]

\* get_student_attendance_stats: <<>> for None, else the dict in a one-element
\* list. attendance_history is kept as the set of its rows: the list has them
\* in the order os.listdir names the files.
get_student_attendance_stats(files, student_name, start_date, end_date) ==
    LET attendance_rows ==
            {[date |-> files[f].date,
              present |-> student_name \in Range(files[f].present_students)] :
                f \in {g \in DOMAIN files :
                          DateInRange(files[g].date, start_date, end_date)}}
        total == Cardinality(attendance_rows)
        present_sum == Cardinality({r \in attendance_rows : r.present})
    IN IF attendance_rows = {} THEN <<>>
       ELSE <<[total_days |-> total,
               days_present |-> present_sum,
               days_absent |-> total - present_sum,
               attendance_percentage |-> FloatDiv(present_sum, total) * 100,
               attendance_history |-> attendance_rows]>>

\* The record save_attendance left for a day (the absent list in one of its orders).
SavedRecord(day, present, all) ==
    attendance_data(day * SecondsPerDay, present, all,
                    CHOOSE absent \in ListsOfSet(absent_set(all, present)) : TRUE)

\* Any set of saved records over QueryDays, queried on Today by a program that
\* was just started.
QueryInit ==
    /\ now \in QueryInstants
    /\ \E S \in SUBSET QueryDays : \E present \in [S -> QueryPresent] :
        attendance_files = [d \in S |-> SavedRecord(d, present[d], QueryStudents)]
    /\ present_students = <<>>
    /\ known_face_encodings = <<>>
    /\ known_face_names = <<>>
    /\ current_encoding_set = <<>>
    /\ camera_active = FALSE
    /\ face_recognition_thread = NoThread
    /\ fg_pc = "idle"
    /\ pending = <<>>
    /\ encoding_sets = StoredSets
    /\ encoding_sets_list = refresh_encoding_sets(StoredSets)
    /\ last_op = OtherOp
    /\ MatchIdle /\ QueryIdle /\ RunIdle /\ BuildIdle

Call(fn, period, student_name, start_date, end_date) ==
    [fn |-> fn, period |-> period, student_name |-> student_name,
     start_date |-> start_date, end_date |-> end_date]

call_get_attendance_trend ==
    /\ q_call = NoCall
    /\ \E period \in TrendPeriods :
        /\ q_call' = Call("get_attendance_trend", period, "", <<>>, <<>>)
        /\ q_result' = get_attendance_trend(attendance_files, now, period)
    /\ UNCHANGED <<ledger_vars, match_vars, run_vars, build_vars, frame_vars>>

call_get_daily_attendance_counts ==
    /\ q_call = NoCall
    /\ \E period \in CountPeriods :
        /\ q_call' = Call("get_daily_attendance_counts", period, "", <<>>, <<>>)
        /\ q_result' = get_daily_attendance_counts(attendance_files, now, period)
    /\ UNCHANGED <<ledger_vars, match_vars, run_vars, build_vars, frame_vars>>

call_get_student_attendance_stats ==
    /\ q_call = NoCall
    /\ \E student_name \in Range(QueryStudents), start_date \in StartDates,
          end_date \in EndDates :
        /\ q_call' = Call("get_student_attendance_stats", "", student_name,
                          start_date, end_date)
        /\ q_result' = get_student_attendance_stats(attendance_files, student_name,
                                                    start_date, end_date)
    /\ UNCHANGED <<ledger_vars, match_vars, run_vars, build_vars, frame_vars>>

\* The caller has used the result.
QueryReturn ==
    /\ q_call # NoCall
    /\ q_call' = NoCall
    /\ q_result' = <<>>
    /\ UNCHANGED <<ledger_vars, match_vars, run_vars, build_vars, frame_vars>>

QueryNext ==
    \/ call_get_attendance_trend
    \/ call_get_daily_attendance_counts
    \/ call_get_student_attendance_stats
    \/ QueryReturn

SpecQuery == QueryInit /\ [][QueryNext]_vars

\* The days that have a record.
RecordDays == DOMAIN attendance_files
\* The calendar day of the wall clock.
today == date_str(now)
\* The number of days a period reaches back, none for no filter.
PeriodDays(period) ==
    CASE period \in {"week", "weekly"} -> <<WeekDays>>
      [] period \in {"month", "monthly"} -> <<MonthDays>>
      [] period = "semester" -> <<SemesterDays>>
      [] OTHER -> <<>>
\* The record days a period selects: those at most PeriodDays before today.
DaysOfPeriod(period) ==
    {d \in RecordDays : PeriodDays(period) = <<>> \/ today - d <= PeriodDays(period)[1]}
Ascending(s) == \A i, j \in 1..Len(s) : i < j => s[i] < s[j]

\* C11: get_attendance_trend(period) returns the records dated within the last
\* N days (week 7, month 30, semester 180: the days d with today - d <= N, the
\* day N days ago included), one (date, present_count) pair each, ascending by
\* date; None when there is none. get_daily_attendance_counts returns the same
\* selection as two lists.
C11_TrendIsWindowAscending ==
    /\ q_call.fn = "get_attendance_trend" =>
        IF DaysOfPeriod(q_call.period) = {} THEN q_result = <<>>
        ELSE /\ Len(q_result) = 1
             /\ Range(q_result[1].dates) = DaysOfPeriod(q_call.period)
             /\ Len(q_result[1].dates) = Cardinality(DaysOfPeriod(q_call.period))
             /\ Ascending(q_result[1].dates)
             /\ Len(q_result[1].present_counts) = Len(q_result[1].dates)
             /\ \A i \in 1..Len(q_result[1].dates) :
                    q_result[1].present_counts[i] =
                        attendance_files[q_result[1].dates[i]].present_count
    /\ q_call.fn = "get_daily_attendance_counts" =>
        /\ Range(q_result[1]) = DaysOfPeriod(q_call.period)
        /\ Len(q_result[1]) = Cardinality(DaysOfPeriod(q_call.period))
        /\ Ascending(q_result[1])
        /\ Len(q_result[2]) = Len(q_result[1])
        /\ \A i \in 1..Len(q_result[1]) :
               q_result[2][i] = attendance_files[q_result[1][i]].present_count
\* The scenario of the claim: records of today-1 and today-8 only, trend("week")
\* has returned the today-1 record alone.
C11_Witness ==
    /\ q_call.fn = "get_attendance_trend" /\ q_call.period = "week"
    /\ RecordDays = {today - 1, today - 8}
    /\ q_result = <<[dates |-> <<today - 1>>,
                    present_counts |-> <<attendance_files[today - 1].present_count>>]>>

\* The record days inside the inclusive optional range of the call.
DaysInRange ==
    {d \in RecordDays :
        /\ q_call.start_date = <<>> \/ d >= q_call.start_date[1]
        /\ q_call.end_date = <<>> \/ d <= q_call.end_date[1]}
DaysPresentInRange ==
    {d \in DaysInRange : q_call.student_name \in Range(attendance_files[d].present_students)}

\* C12: get_student_attendance_stats counts exactly the records dated inside the
\* inclusive optional range: total_days is their number, days_present the
\* number of them listing the student, days_absent the difference,
\* attendance_percentage 100 * days_present / total_days (to the precision of a
\* float); it returns None when no record is in the range.
C12_StudentStats ==
    q_call.fn = "get_student_attendance_stats" =>
        IF DaysInRange = {} THEN q_result = <<>>
        ELSE /\ Len(q_result) = 1
             /\ q_result[1].total_days = Cardinality(DaysInRange)
             /\ q_result[1].days_present = Cardinality(DaysPresentInRange)
             /\ q_result[1].days_absent =
                    q_result[1].total_days - q_result[1].days_present
             /\ LET exact == 100 * FloatScale * q_result[1].days_present
                    got == q_result[1].attendance_percentage * q_result[1].total_days
                IN got - exact <= 100 * q_result[1].total_days
                   /\ exact - got <= 100 * q_result[1].total_days
             /\ {r.date : r \in q_result[1].attendance_history} = DaysInRange
\* A range whose two end days have a record, with the student present on some
\* day and absent on another; and a call that returned None.
C12_Witness ==
    /\ q_call.fn = "get_student_attendance_stats"
    /\ q_call.start_date = <<Today - 7>> /\ q_call.end_date = <<Today>>
    /\ {Today - 7, Today, Today - 8} \subseteq RecordDays
    /\ q_result # <<>>
    /\ q_result[1].days_present > 0 /\ q_result[1].days_absent > 0
    /\ q_result[1].total_days < Cardinality(RecordDays)

\* ================================== the recognition run, statement by statement
\* The frames of this run: nobody in view, or student A.
RunFrames == {<<>>, << <<0, 0>> >>}

\* toggle_camera, face1.py:1443: the test that sends a click to start_recognition.
ToggleStartsAlways(active) == TRUE
ToggleStarts(active) == ~active

\* Where run() goes after a pass of the loop that failed: "continue" leads
\* back to the loop test.
AbandonRun == "finally"
ContinueLoop == "loop"

\* A click on the start or the stop button with the camera off: start_recognition.
toggle_camera_start ==
    /\ fg_pc = "idle"
    /\ current_encoding_set # <<>>
    /\ ToggleStarts(camera_active)
    /\ r_count < MaxRuns
    /\ IF known_face_encodings = <<>>
       THEN UNCHANGED <<face_recognition_thread, camera_active, run_vars>>
       ELSE /\ \E input \in ThresholdInputs :
                face_recognition_thread' =
                    [pc |-> "start", running |-> FALSE, video_capture |-> "None",
                     encodings |-> known_face_encodings, names |-> known_face_names,
                     threshold |-> IF 0 <= input /\ input <= ThresholdLimit
                                   THEN input ELSE DefaultThreshold]
            /\ camera_active' = TRUE
            /\ r_count' = r_count + 1
            /\ r_opened' = FALSE /\ r_releases' = 0 /\ r_misused' = FALSE
            /\ r_last' = "none"
            /\ UNCHANGED r_closing
    /\ last_op' = OtherOp
    /\ UNCHANGED <<now, present_students, known_face_encodings, known_face_names,
                   current_encoding_set, fg_pc, pending, attendance_files,
                   encoding_sets>>
    /\ UNCHANGED <<match_vars, query_vars, build_vars, frame_vars>>

\* A click with the camera on: stop_recognition enters FaceRecognitionThread.stop
\* and clears running.
toggle_camera_stop ==
    /\ fg_pc = "idle"
    /\ ~ToggleStarts(camera_active)
    /\ face_recognition_thread.pc # "none"
    /\ face_recognition_thread' = [face_recognition_thread EXCEPT !.running = FALSE]
    /\ fg_pc' = "cleanup"
    /\ UNCHANGED <<now, present_students, known_face_encodings, known_face_names,
                   current_encoding_set, camera_active, pending, attendance_files,
                   encoding_sets, last_op>>
    /\ UNCHANGED <<match_vars, query_vars, run_vars, build_vars, frame_vars>>

\* closeEvent with a thread object: it enters FaceRecognitionThread.stop too.
closeEvent_stop ==
    /\ fg_pc = "idle"
    /\ face_recognition_thread.pc # "none"
    /\ face_recognition_thread' = [face_recognition_thread EXCEPT !.running = FALSE]
    /\ fg_pc' = "cleanup"
    /\ r_closing' = TRUE
    /\ UNCHANGED <<now, present_students, known_face_encodings, known_face_names,
                   current_encoding_set, camera_active, pending, attendance_files,
                   encoding_sets, last_op>>
    /\ UNCHANGED <<build_vars, frame_vars, match_vars, query_vars, r_count, r_opened, r_releases, r_misused, r_last>>

\* cleanup() called by stop(): the test "self.video_capture is not None".
stop_cleanup_test ==
    /\ fg_pc = "cleanup"
    /\ fg_pc' = IF face_recognition_thread.video_capture # "None"
                THEN "release" ELSE "waiting"
    /\ UNCHANGED <<now, present_students, known_face_encodings, known_face_names,
                   current_encoding_set, camera_active, face_recognition_thread,
                   pending, attendance_files, encoding_sets, last_op>>
    /\ UNCHANGED <<match_vars, query_vars, run_vars, build_vars, frame_vars>>

\* self.video_capture.release(): the attribute is read again; when the thread
\* has set it to None meanwhile the call raises AttributeError out of the slot.
stop_cleanup_release ==
    /\ fg_pc = "release"
    /\ IF face_recognition_thread.video_capture = "None"
       THEN fg_pc' = "error" /\ UNCHANGED r_releases
       ELSE fg_pc' = "set_none" /\ r_releases' = r_releases + 1
    /\ UNCHANGED <<now, present_students, known_face_encodings, known_face_names,
                   current_encoding_set, camera_active, face_recognition_thread,
                   pending, attendance_files, encoding_sets, last_op>>
    /\ UNCHANGED <<build_vars, frame_vars, match_vars, query_vars, r_count, r_opened, r_misused, r_last, r_closing>>

\* self.video_capture = None, then stop() calls wait().
stop_cleanup_set_none ==
    /\ fg_pc = "set_none"
    /\ face_recognition_thread' =
           [face_recognition_thread EXCEPT !.video_capture = "None"]
    /\ fg_pc' = "waiting"
    /\ UNCHANGED <<now, present_students, known_face_encodings, known_face_names,
                   current_encoding_set, camera_active, pending, attendance_files,
                   encoding_sets, last_op>>
    /\ UNCHANGED <<match_vars, query_vars, run_vars, build_vars, frame_vars>>

\* wait() returns because run() has returned; stop_recognition finishes.
stop_recognition_return ==
    /\ fg_pc = "waiting"
    /\ ~r_closing
    /\ face_recognition_thread.pc = "done"
    /\ face_recognition_thread' = NoThread
    /\ fg_pc' = "idle"
    /\ camera_active' = FALSE
    /\ last_op' = OtherOp
    /\ UNCHANGED <<now, present_students, known_face_encodings, known_face_names,
                   current_encoding_set, pending, attendance_files, encoding_sets>>
    /\ UNCHANGED <<match_vars, query_vars, run_vars, build_vars, frame_vars>>

\* The state of a new process: __init__ has run, the files are as they were.
NewProcess ==
    /\ present_students' = <<>>
    /\ known_face_encodings' = <<>>
    /\ known_face_names' = <<>>
    /\ current_encoding_set' = <<>>
    /\ camera_active' = FALSE
    /\ face_recognition_thread' = NoThread
    /\ fg_pc' = "idle"
    /\ pending' = <<>>
    /\ last_op' = OtherOp
    /\ r_count' = 0 /\ r_opened' = FALSE /\ r_releases' = 0
    /\ r_misused' = FALSE /\ r_last' = "none" /\ r_closing' = FALSE
    /\ load_thread' = NoLoadThread
    /\ encoding_sets_list' = refresh_encoding_sets(encoding_sets)
    /\ frame' = NoFrame
    /\ UNCHANGED <<now, attendance_files, encoding_sets>>
    /\ UNCHANGED <<match_vars, query_vars>>

\* wait() returns inside closeEvent: the event is accepted, the program ends
\* and is started again.
closeEvent_accept ==
    /\ fg_pc = "waiting"
    /\ r_closing
    /\ face_recognition_thread.pc = "done"
    /\ NewProcess

\* An exception left a slot or run(): PyQt ends the process; it is started again.
ProcessAbort ==
    /\ fg_pc = "error" \/ face_recognition_thread.pc = "error"
    /\ NewProcess

\* What the steps of run() leave alone.
RunKeeps ==
    /\ UNCHANGED <<now, present_students, known_face_encodings, known_face_names,
                   current_encoding_set, camera_active, fg_pc, attendance_files,
                   encoding_sets, last_op>>
    /\ UNCHANGED <<build_vars, frame_vars, match_vars, query_vars, r_count, r_closing>>

\* run(): self.running = True
run_set_running ==
    /\ face_recognition_thread.pc = "start"
    /\ face_recognition_thread' =
           [face_recognition_thread EXCEPT !.pc = "open", !.running = TRUE]
    /\ UNCHANGED <<pending, r_opened, r_releases, r_misused, r_last>>
    /\ RunKeeps

\* self.video_capture = cv2.VideoCapture(0); the camera opens or does not.
run_open_camera ==
    /\ face_recognition_thread.pc = "open"
    /\ face_recognition_thread' =
           [face_recognition_thread EXCEPT !.pc = "is_opened", !.video_capture = "cap"]
    /\ r_opened' \in BOOLEAN
    /\ UNCHANGED <<pending, r_releases, r_misused, r_last>>
    /\ RunKeeps

\* if not self.video_capture.isOpened(): return. With the attribute set to
\* None by stop() the call raises into the outer except clause; on a released
\* capture it answers False.
run_is_opened ==
    /\ face_recognition_thread.pc = "is_opened"
    /\ IF face_recognition_thread.video_capture = "None"
       THEN /\ face_recognition_thread' =
                   [face_recognition_thread EXCEPT !.pc = "finally"]
            /\ UNCHANGED r_misused
       ELSE /\ face_recognition_thread' =
                   [face_recognition_thread EXCEPT
                        !.pc = IF r_opened /\ r_releases = 0 THEN "loop" ELSE "finally"]
            /\ r_misused' = (r_misused \/ r_releases > 0)
    /\ UNCHANGED <<pending, r_opened, r_releases, r_last>>
    /\ RunKeeps

\* while self.running:
run_loop_test ==
    /\ face_recognition_thread.pc = "loop"
    /\ face_recognition_thread' =
           [face_recognition_thread EXCEPT
                !.pc = IF face_recognition_thread.running THEN "read" ELSE "finally"]
    /\ UNCHANGED <<pending, r_opened, r_releases, r_misused, r_last>>
    /\ RunKeeps

\* ret, frame = self.video_capture.read(); if not ret: continue. With the
\* attribute set to None the call raises into the outer except clause; a
\* released capture has no frame to give.
run_read ==
    /\ face_recognition_thread.pc = "read"
    /\ IF face_recognition_thread.video_capture = "None"
       THEN /\ face_recognition_thread' =
                   [face_recognition_thread EXCEPT !.pc = "finally"]
            /\ r_last' = "read_raised"
            /\ UNCHANGED r_misused
       ELSE \E ret \in BOOLEAN :
            /\ r_releases > 0 => ~ret
            /\ face_recognition_thread' =
                   [face_recognition_thread EXCEPT
                        !.pc = IF ret THEN "process" ELSE ContinueLoop]
            /\ r_misused' = (r_misused \/ r_releases > 0)
            /\ r_last' = IF ret THEN "read_ok" ELSE "read_failed"
    /\ UNCHANGED <<pending, r_opened, r_releases>>
    /\ RunKeeps

\* The inner try block, face1.py:57-94: the faces of the frame are matched and
\* the signals emitted, or an exception is caught and printed; then the next
\* pass.
run_process ==
    /\ face_recognition_thread.pc = "process"
    /\ \/ /\ r_last' = "frame_error"
          /\ UNCHANGED pending
       \/ /\ \E face_encodings \in RunFrames :
                LET signals == FrameSignals(face_recognition_thread, face_encodings, 1)
                IN /\ Len(pending) + Len(signals) <= MaxQueue
                   /\ pending' = postEvent(pending, signals)
          /\ r_last' = "frame_ok"
    /\ face_recognition_thread' = [face_recognition_thread EXCEPT !.pc = ContinueLoop]
    /\ UNCHANGED <<r_opened, r_releases, r_misused>>
    /\ RunKeeps

\* finally: self.cleanup(), the test "self.video_capture is not None".
run_cleanup_test ==
    /\ face_recognition_thread.pc = "finally"
    /\ face_recognition_thread' =
           [face_recognition_thread EXCEPT
                !.pc = IF face_recognition_thread.video_capture # "None"
                       THEN "release" ELSE "done"]
    /\ UNCHANGED <<pending, r_opened, r_releases, r_misused, r_last>>
    /\ RunKeeps

\* self.video_capture.release(); AttributeError leaves run() when stop() has
\* set the attribute to None after the test.
run_cleanup_release ==
    /\ face_recognition_thread.pc = "release"
    /\ IF face_recognition_thread.video_capture = "None"
       THEN /\ face_recognition_thread' =
                   [face_recognition_thread EXCEPT !.pc = "error"]
            /\ UNCHANGED r_releases
       ELSE /\ face_recognition_thread' =
                   [face_recognition_thread EXCEPT !.pc = "set_none"]
            /\ r_releases' = r_releases + 1
    /\ UNCHANGED <<pending, r_opened, r_misused, r_last>>
    /\ RunKeeps

\* self.video_capture = None; run() returns.
run_cleanup_set_none ==
    /\ face_recognition_thread.pc = "set_none"
    /\ face_recognition_thread' =
           [face_recognition_thread EXCEPT !.pc = "done", !.video_capture = "None"]
    /\ UNCHANGED <<pending, r_opened, r_releases, r_misused, r_last>>
    /\ RunKeeps

ThreadStep ==
    \/ run_set_running
    \/ run_open_camera
    \/ run_is_opened
    \/ run_loop_test
    \/ run_read
    \/ run_process
    \/ run_cleanup_test
    \/ run_cleanup_release
    \/ run_cleanup_set_none

StopStep ==
    \/ stop_cleanup_test
    \/ stop_cleanup_release
    \/ stop_cleanup_set_none
    \/ stop_recognition_return
    \/ closeEvent_accept
    \/ ProcessAbort

RunNext ==
    \/ load_selected_encoding_set
    \/ toggle_camera_start
    \/ toggle_camera_stop
    \/ closeEvent_stop
    \/ stop_cleanup_test
    \/ stop_cleanup_release
    \/ stop_cleanup_set_none
    \/ stop_recognition_return
    \/ closeEvent_accept
    \/ ProcessAbort
    \/ run_set_running
    \/ run_open_camera
    \/ run_is_opened
    \/ run_loop_test
    \/ run_read
    \/ run_process
    \/ run_cleanup_test
    \/ run_cleanup_release
    \/ run_cleanup_set_none
    \/ update_attendance_record

SpecRun == Init /\ [][RunNext]_vars

\* The thread is scheduled as long as it can take a step, and the GUI thread
\* goes on with a handler it has entered.
FairSpecRun == SpecRun /\ WF_vars(ThreadStep) /\ WF_vars(StopStep)

\* C13: when the camera cannot be opened the loop remains Idle: once the
\* failed run() has returned, camera_active is false (and so the next click
\* starts again, without a stop in between).
C13_FailedStartLeavesIdle ==
    (face_recognition_thread.pc = "done" /\ ~r_opened /\ fg_pc = "idle")
        => ~camera_active

\* C14: once stop() has returned (camera_active is false from then until the
\* next start) no identity event is handled by update_attendance_record.
C14_NoEventHandledAfterStop ==
    [][update_attendance_record => camera_active]_vars

\* C15: the capture of a run is released exactly once: never twice, never
\* used after its release, and once when run() has returned on a camera that
\* had been opened.
C15_ReleasedExactlyOnce ==
    r_opened =>
        /\ r_releases <= 1
        /\ ~r_misused
        /\ face_recognition_thread.pc = "done" => r_releases = 1

\* C16: stop() always terminates: every call that has cleared the running flag
\* leads to the GUI thread being idle again.
C16_StopTerminates == (fg_pc = "cleanup") ~> (fg_pc = "idle")

\* The state of the loop as the program keeps it.
Phase ==
    IF fg_pc # "idle" THEN "Stopping"
    ELSE IF camera_active THEN "Running" ELSE "Idle"

\* C17: the loop goes Idle -> Running -> Stopping -> Idle and no other way
\* (the end of the process apart): a thread is started only from Idle, with a
\* capture not yet acquired, and stop() is entered only from Running.
C17_Lifecycle ==
    [][/\ (Phase' # Phase /\ ~ProcessAbort) =>
              <<Phase, Phase'>> \in {<<"Idle", "Running">>, <<"Running", "Stopping">>,
                                     <<"Stopping", "Idle">>}
       /\ r_count' = r_count + 1 =>
              /\ Phase = "Idle" /\ Phase' = "Running"
              /\ face_recognition_thread'.pc = "start"
              /\ face_recognition_thread'.video_capture = "None"
              /\ r_releases' = 0
       /\ (toggle_camera_stop \/ closeEvent_stop) =>
              Phase = "Running" /\ Phase' = "Stopping"]_vars
\* The second run of a process, started after a completed stop, has opened the
\* camera anew.
C17_Witness ==
    /\ r_count = 2
    /\ Phase = "Running"
    /\ face_recognition_thread.pc = "loop"
    /\ face_recognition_thread.video_capture = "cap"
    /\ r_opened /\ r_releases = 0

\* C18: a read that fails and an exception while a frame is processed both
\* lead back to the loop test, which leads to the next read while running is
\* set; with no stop() entered, run() leaves the loop never, and comes to its
\* end only when the camera could not be opened.
C18_FailuresKeepLoopRunning ==
    [][/\ (run_read /\ r_last' = "read_failed") => face_recognition_thread'.pc = "loop"
       /\ (run_process /\ r_last' = "frame_error") => face_recognition_thread'.pc = "loop"
       /\ (run_loop_test /\ fg_pc = "idle") => face_recognition_thread'.pc = "read"
       /\ (ThreadStep /\ fg_pc = "idle" /\ face_recognition_thread'.pc = "finally") =>
              face_recognition_thread.pc = "is_opened" /\ ~r_opened]_vars
\* After a frame that raised, with no stop requested, the loop is at its next read.
C18_Witness ==
    /\ face_recognition_thread.pc = "read"
    /\ r_last = "frame_error"
    /\ fg_pc = "idle" /\ camera_active

\* ================================================ the build of a dataset
MaxFiles == 3      \* files in the image directory of a build

\* File names as the pieces str.split and str.endswith look at: the text
\* between underscores, the underscores, and the extension.
ImageSuffixes == {".jpg", ".png"}
FileNames ==
    {<<"Alice", "_", "1", ".jpg">>, <<"Alice", "_", "2", ".jpg">>,
     <<"Mary", "_", "Ann", "_", "3", ".png">>, <<"Alice", ".jpg">>,
     <<"Bob", ".png">>, <<"notes", ".txt">>}
\* The encoding face_recognition finds in the picture of that name.
FaceOf(filename) ==
    CASE filename = <<"Alice", "_", "1", ".jpg">> -> <<0, 0>>
      [] filename = <<"Alice", "_", "2", ".jpg">> -> <<0, 18>>
      [] filename = <<"Mary", "_", "Ann", "_", "3", ".png">> -> <<18, 0>>
      [] filename = <<"Alice", ".jpg">> -> <<0, 2>>
      [] OTHER -> <<40, 40>>

\* filename.endswith(".jpg") or filename.endswith(".png")
endswith_image(filename) == filename[Len(filename)] \in ImageSuffixes

\* The text of a run of pieces.
RECURSIVE text(_)
text(pieces) == IF pieces = <<>> THEN "" ELSE pieces[1] \o text(Tail(pieces))

\* str.split(sep): the runs of pieces between the separators.
RECURSIVE split(_, _)
split(pieces, sep) ==
    IF \E i \in 1..Len(pieces) : pieces[i] = sep
    THEN LET i == CHOOSE k \in 1..Len(pieces) :
                      pieces[k] = sep /\ \A j \in 1..(k - 1) : pieces[j] # sep
         IN <<SubSeq(pieces, 1, i - 1)>> \o split(SubSeq(pieces, i + 1, Len(pieces)), sep)
    ELSE <<pieces>>

\* sep.join(parts)
RECURSIVE join(_, _)
join(sep, parts) ==
    IF parts = <<>> THEN ""
    ELSE IF Len(parts) = 1 THEN text(parts[1])
    ELSE text(parts[1]) \o sep \o join(sep, Tail(parts))

\* "_".join(filename.split("_")[:-1]), face1.py:134
AllButLast(parts) == SubSeq(parts, 1, Len(parts) - 1)
student_name(filename) == join("_", AllButLast(split(filename, "_")))

\* What is in an image file: cv2.imread gives None, or the conversion or the
\* face detection raises, or they give the encodings of the faces found.
Images(filename) ==
    IF endswith_image(filename)
    THEN {[imread |-> "None", encodings |-> <<>>],
          [imread |-> "raises", encodings |-> <<>>],
          [imread |-> "ok", encodings |-> <<>>],
          [imread |-> "ok", encodings |-> <<FaceOf(filename)>>]}
    ELSE {[imread |-> "None", encodings |-> <<>>]}
DirEntries ==
    UNION {{[filename |-> f, image |-> im] : im \in Images(f)} : f \in FileNames}
\* os.listdir of an image directory: its files, in the order it lists them.
Directories ==
    UNION {{d \in [1..n -> DirEntries] :
               \A i, j \in 1..n : d[i].filename = d[j].filename => i = j} :
           n \in 0..MaxFiles}

\* students_encodings, a dict name -> list of encodings, as its items.
EncHas(d, k) == \E i \in 1..Len(d) : d[i].name = k
EncAppend(d, k, e) ==
    IF EncHas(d, k)
    THEN [i \in 1..Len(d) |->
             IF d[i].name = k
             THEN [name |-> k, encodings |-> Append(d[i].encodings, e)] ELSE d[i]]
    ELSE Append(d, [name |-> k, encodings |-> <<e>>])

\* np.mean(encodings, axis=0), to the precision vectors have here.
RECURSIVE sum_of(_, _)
sum_of(es, c) == IF es = <<>> THEN 0 ELSE es[1][c] + sum_of(Tail(es), c)
mean(es) == [c \in 1..2 |-> (2 * sum_of(es, c) + Len(es)) \div (2 * Len(es))]

Progress(kind, filename) == [kind |-> kind, filename |-> filename]

\* The for loop of LoadStudentsThread.run from file i on, face1.py:131-157.
RECURSIVE run_images(_, _, _)
run_images(directory, i, acc) ==
    IF i > Len(directory) THEN acc
    ELSE LET filename == directory[i].filename
             image == directory[i].image
             name == student_name(filename)
             processing == Append(acc.progress, Progress("Processing image", filename))
         IN run_images(directory, i + 1,
                IF ~endswith_image(filename) THEN acc
                ELSE IF image.imread = "None"
                THEN [acc EXCEPT !.progress =
                          Append(processing, Progress("Couldn't read image", filename))]
                ELSE IF image.imread = "raises"
                THEN [acc EXCEPT !.progress =
                          Append(processing, Progress("Error processing", filename))]
                ELSE IF image.encodings # <<>>
                THEN [students_encodings |->
                          EncAppend(acc.students_encodings, name, image.encodings[1]),
                      loaded_count |-> acc.loaded_count + 1,
                      progress |-> Append(processing,
                                          Progress("Successfully processed", filename))]
                ELSE [acc EXCEPT !.progress = processing])

\* LoadStudentsThread.run as a whole: what it emits with finished and progress.
build(directory) ==
    LET acc == run_images(directory, 1,
                   [students_encodings |-> <<>>, loaded_count |-> 0, progress |-> <<>>])
        n == Len(acc.students_encodings)
    IN [known_face_encodings |-> [j \in 1..n |-> mean(acc.students_encodings[j].encodings)],
        known_face_names |-> [j \in 1..n |-> acc.students_encodings[j].name],
        loaded_count |-> acc.loaded_count,
        progress |-> acc.progress]

\* The thread of a build that was started on that directory.
StartedLoadThread(name, directory) ==
    [NoLoadThread EXCEPT !.pc = "start", !.dataset_name = name, !.directory = directory]

\* run() of the LoadStudentsThread from its start to finished.emit.
LoadStudentsThread_run ==
    /\ load_thread.pc = "start"
    /\ LET built == build(load_thread.directory)
       IN load_thread' = [load_thread EXCEPT
              !.pc = "finished",
              !.known_face_encodings = built.known_face_encodings,
              !.known_face_names = built.known_face_names,
              !.loaded_count = built.loaded_count,
              !.progress = built.progress]
    /\ UNCHANGED <<ledger_vars, match_vars, query_vars, run_vars, encoding_sets_list, frame_vars>>

\* ===================================================== the dataset store
\* info.json as save_encoding_set writes it, and one json.load cannot read.
Info(name, names, count) ==
    [readable |-> TRUE, name |-> name,
     student_count |-> Cardinality(Range(names)), images_processed |-> count]
GarbageInfo == [readable |-> FALSE]

\* Files found under encodings/ by refresh_encoding_sets: three datasets as
\* save_encoding_set writes them, a pickled dict that has no 'names', and a
\* file that cannot be read as a dict with 'encodings'.
StoredFiles ==
    [cs101 |-> [encodings |-> << <<0, 0>>, <<0, 18>>, <<18, 0>> >>, names |-> <<"A", "B", "C">>,
                info |-> Info("cs101", <<"A", "B", "C">>, 3)],
     cs102 |-> [encodings |-> << <<0, 9>>, <<40, 40>> >>, names |-> <<"D", "E">>,
                info |-> Info("cs102", <<"D", "E">>, 4)],
     empty |-> [encodings |-> <<>>, names |-> <<>>, info |-> Info("empty", <<>>, 0)],
     nonames |-> [encodings |-> << <<40, 40>> >>],
     unreadable |-> [garbage |-> TRUE]]

StoreInit ==
    /\ now = 0
    /\ present_students = <<>>
    /\ known_face_encodings = <<>>
    /\ known_face_names = <<>>
    /\ current_encoding_set = <<>>
    /\ camera_active = FALSE
    /\ face_recognition_thread = NoThread
    /\ fg_pc = "idle"
    /\ pending = <<>>
    /\ attendance_files = <<>>
    /\ encoding_sets = StoredFiles
    /\ encoding_sets_list = refresh_encoding_sets(StoredFiles)
    /\ last_op = OtherOp
    /\ MatchIdle /\ QueryIdle /\ RunIdle /\ BuildIdle

\* What the user can enter in the dialog of create_new_encoding_set: the name
\* of a dataset that exists or a new one, and an image directory.
NewDatasetNames == {"cs101", "cs103"}
OfferedDirectories ==
    {<<[filename |-> <<"Alice", "_", "1", ".jpg">>,
        image |-> [imread |-> "ok", encodings |-> << <<0, 0>> >>]],
       [filename |-> <<"Alice", "_", "2", ".jpg">>,
        image |-> [imread |-> "ok", encodings |-> << <<0, 18>> >>]]>>}

\* A directory that has no file in it.
EmptyDir == [f \in {} |-> TRUE]
\* os.makedirs(dataset_path, exist_ok=True)
makedirs(dirs, name) ==
    [d \in DOMAIN dirs \cup {name} |-> IF d \in DOMAIN dirs THEN dirs[d] ELSE EmptyDir]
\* shutil.rmtree(dataset_path)
rmtree(dirs, name) == [d \in DOMAIN dirs \ {name} |-> dirs[d]]

\* process_new_encoding_set, the user confirming the overwrite of a dataset
\* that exists: the directory is made and the build thread started.
process_new_encoding_set ==
    /\ fg_pc = "idle"
    /\ load_thread.pc = "none"
    /\ \E name \in NewDatasetNames : \E directory \in OfferedDirectories :
        /\ encoding_sets' = makedirs(encoding_sets, name)
        /\ load_thread' = StartedLoadThread(name, directory)
    /\ last_op' = OtherOp
    /\ UNCHANGED <<now, present_students, known_face_encodings, known_face_names,
                   current_encoding_set, camera_active, face_recognition_thread,
                   fg_pc, pending, attendance_files, encoding_sets_list>>
    /\ UNCHANGED <<match_vars, query_vars, run_vars, frame_vars>>

\* Where an exception can leave the try block of save_encoding_set: nowhere,
\* in the write of encodings.pkl, in the open of info.json, in its write.
SaveFailures == {"none", "pickle", "info_open", "info_dump"}

\* The info.json a directory had stays when it is not written.
KeepInfo(dir, files) ==
    IF "info" \in DOMAIN dir THEN files @@ [info |-> dir.info] ELSE files

\* The files save_encoding_set leaves in the directory of the dataset: each
\* file is opened for writing, which empties it, and written in place.
saved_files(dir, name, encodings, names, count, failure) ==
    CASE failure = "pickle" -> KeepInfo(dir, [garbage |-> TRUE])
      [] failure = "info_open" -> KeepInfo(dir, [encodings |-> encodings, names |-> names])
      [] failure = "info_dump" ->
            [encodings |-> encodings, names |-> names, info |-> GarbageInfo]
      [] OTHER ->
            [encodings |-> encodings, names |-> names, info |-> Info(name, names, count)]

\* The slot save_encoding_set, run for the finished signal of the build. With
\* the directory gone the first open raises and nothing is written.
save_encoding_set ==
    /\ fg_pc = "idle"
    /\ load_thread.pc = "finished"
    /\ LET name == load_thread.dataset_name
       IN IF name \notin DOMAIN encoding_sets
          THEN /\ last_op' = Op("save", name, FALSE, FALSE)
               /\ UNCHANGED <<encoding_sets, encoding_sets_list>>
          ELSE \E failure \in SaveFailures :
               /\ encoding_sets' =
                      [encoding_sets EXCEPT ![name] =
                          saved_files(encoding_sets[name], name,
                                      load_thread.known_face_encodings,
                                      load_thread.known_face_names,
                                      load_thread.loaded_count, failure)]
               /\ encoding_sets_list' =
                      IF failure = "none" THEN refresh_encoding_sets(encoding_sets')
                      ELSE encoding_sets_list
               /\ last_op' = Op("save", name, TRUE, failure = "none")
    /\ load_thread' = NoLoadThread
    /\ UNCHANGED <<now, present_students, known_face_encodings, known_face_names,
                   current_encoding_set, camera_active, face_recognition_thread,
                   fg_pc, pending, attendance_files>>
    /\ UNCHANGED <<match_vars, query_vars, run_vars, frame_vars>>

\* self.current_encoding_set = None
NoDataset == "None"

\* delete_selected_encoding_set on a listed dataset, the user confirming.
\* rmtree raises when the directory is not there and the handler reports
\* "Delete Error" with nothing else done. Otherwise the directory is removed
\* and the list refreshed; then self.current_encoding_set is read, which
\* raises when no load or delete has assigned it yet, and the gallery is reset
\* when it is the deleted dataset. last_op: checked is "rmtree returned",
\* flag is "the handler reported 'Deleted' and no error".
delete_selected_encoding_set ==
    /\ fg_pc = "idle"
    /\ \E ds \in encoding_sets_list :
        IF ds \notin DOMAIN encoding_sets
        THEN /\ last_op' = Op("delete", ds, FALSE, FALSE)
             /\ UNCHANGED <<encoding_sets, encoding_sets_list, known_face_encodings,
                            known_face_names, current_encoding_set>>
        ELSE /\ encoding_sets' = rmtree(encoding_sets, ds)
             /\ encoding_sets_list' = refresh_encoding_sets(encoding_sets')
             /\ IF current_encoding_set = <<>>
                THEN /\ last_op' = Op("delete", ds, TRUE, FALSE)
                     /\ UNCHANGED <<known_face_encodings, known_face_names,
                                    current_encoding_set>>
                ELSE IF current_encoding_set = <<ds>>
                THEN /\ known_face_encodings' = <<>>
                     /\ known_face_names' = <<>>
                     /\ current_encoding_set' = <<NoDataset>>
                     /\ last_op' = Op("delete", ds, TRUE, TRUE)
                ELSE /\ last_op' = Op("delete", ds, TRUE, TRUE)
                     /\ UNCHANGED <<known_face_encodings, known_face_names,
                                    current_encoding_set>>
    /\ UNCHANGED <<now, present_students, camera_active, face_recognition_thread,
                   fg_pc, pending, attendance_files>>
    /\ UNCHANGED <<match_vars, query_vars, run_vars, load_thread, frame_vars>>

\* Somebody else removes a dataset directory (a file manager, a second
\* instance of the program); the list on the screen still shows it.
DatasetRemovedOutside ==
    /\ \E ds \in DOMAIN encoding_sets : encoding_sets' = rmtree(encoding_sets, ds)
    /\ UNCHANGED <<now, present_students, known_face_encodings, known_face_names,
                   current_encoding_set, camera_active, face_recognition_thread,
                   fg_pc, pending, attendance_files, last_op>>
    /\ UNCHANGED <<match_vars, query_vars, run_vars, build_vars, frame_vars>>

StoreNext ==
    \/ load_selected_encoding_set
    \/ delete_selected_encoding_set
    \/ start_recognition
    \/ stop_recognition_begin
    \/ stop_recognition_end
    \/ ThreadOpenCamera
    \/ ThreadLoopExit

SpecStore == StoreInit /\ [][StoreNext]_vars

\* The store with one dataset in it, and datasets being built, saved, loaded
\* and deleted.
SavedSets == [cs101 |-> StoredFiles.cs101]

SaveInit ==
    /\ now = 0
    /\ present_students = <<>>
    /\ known_face_encodings = <<>>
    /\ known_face_names = <<>>
    /\ current_encoding_set = <<>>
    /\ camera_active = FALSE
    /\ face_recognition_thread = NoThread
    /\ fg_pc = "idle"
    /\ pending = <<>>
    /\ attendance_files = <<>>
    /\ encoding_sets = SavedSets
    /\ encoding_sets_list = refresh_encoding_sets(SavedSets)
    /\ last_op = OtherOp
    /\ MatchIdle /\ QueryIdle /\ RunIdle /\ BuildIdle

SaveNext ==
    \/ load_selected_encoding_set
    \/ delete_selected_encoding_set
    \/ process_new_encoding_set
    \/ LoadStudentsThread_run
    \/ save_encoding_set
    \/ DatasetRemovedOutside

SpecSave == SaveInit /\ [][SaveNext]_vars

\* C19: while recognition is Running a load, or a delete of the loaded
\* dataset, leaves the active gallery and label list as they are.
C19_GalleryFixedWhileRunning ==
    [][(camera_active /\ (load_selected_encoding_set \/ delete_selected_encoding_set))
           => UNCHANGED <<known_face_encodings, known_face_names>>]_vars

\* The galleries of the well-formed files, and the empty gallery of __init__.
WholeGalleries ==
    {<<StoredFiles[ds].encodings, StoredFiles[ds].names>> :
        ds \in {d \in DOMAIN StoredFiles : {"encodings", "names"} \subseteq DOMAIN StoredFiles[d]}}
    \cup {<<<<>>, <<>>>>}

\* C20: the active encodings and the active names always come from one and
\* the same dataset, entry by entry (a failed load has changed neither).
C20_GalleryFromOneDataset ==
    /\ Len(known_face_encodings) = Len(known_face_names)
    /\ <<known_face_encodings, known_face_names>> \in WholeGalleries

\* =================================================== ties, totals and dates
\* The gallery with its entries listed in another order.
Reordered(s, p) == [i \in 1..Len(s) |-> s[p[i]]]

\* C27: a match does not depend on the order of the gallery entries: listing
\* the same (label, vector) pairs in any other order selects the same label.
C27_MatchIndependentOfOrder ==
    m_pc = "matched" =>
        \A p \in ListsOfSet(1..Len(m_encodings)) :
            match(Reordered(m_encodings, p), Reordered(m_names, p), m_query, m_threshold)
                = m_name

\* C29: in every saved record the present students are among all students,
\* so the absent count is not negative and the percentage is between 0 and 100.
C29_PresentAmongAllStudents ==
    \A d \in DOMAIN attendance_files :
        LET r == attendance_files[d]
        IN /\ Range(r.present_students) \subseteq Range(r.all_students)
           /\ r.present_count <= r.total_students
           /\ r.total_students - r.present_count >= 0
           /\ 0 <= r.attendance_percentage
           /\ r.attendance_percentage <= 100 * FloatScale

\* C30: a recorded sighting is written to the record of the day of its own
\* timestamp, and that is the only record the handler writes.
C30_SavedUnderEventDate ==
    [][(update_attendance_record /\ last_op'.flag) =>
          LET event == Head(pending)
              day == event.timestamp[1]
          IN /\ day \in DOMAIN attendance_files'
             /\ event.name \in Range(attendance_files'[day].present_students)
             /\ \A d \in DOMAIN attendance_files' \ {day} :
                    d \in DOMAIN attendance_files
                    /\ attendance_files'[d] = attendance_files[d]]_vars

\* ======================================== the queue of identity events
\* Signals that can wait for the GUI thread at one time in this specification.
QueueDepth == MaxQueue + 1

\* One pass of the while loop with a frame read, the GUI thread being up to
\* QueueDepth signals behind.
ThreadProcessFrameQueued ==
    /\ face_recognition_thread.pc = "loop"
    /\ face_recognition_thread.running
    /\ \E face_encodings \in Frames :
        LET signals == FrameSignals(face_recognition_thread, face_encodings, 1)
        IN /\ signals # <<>>
           /\ Len(pending) + Len(signals) <= QueueDepth
           /\ pending' = postEvent(pending, signals)
    /\ UNCHANGED <<now, present_students, known_face_encodings,
                   known_face_names, current_encoding_set, camera_active,
                   face_recognition_thread, fg_pc, attendance_files,
                   encoding_sets, last_op>>
    /\ UNCHANGED <<match_vars, query_vars, run_vars, build_vars, frame_vars>>

QueueNext ==
    \/ load_selected_encoding_set
    \/ start_recognition
    \/ stop_recognition_begin
    \/ stop_recognition_end
    \/ ThreadOpenCamera
    \/ ThreadProcessFrameQueued
    \/ ThreadLoopExit
    \/ update_attendance_record
    \/ Restart

SpecQueue == Init /\ [][QueueNext]_vars

\* q continues p.
IsPrefix(p, q) == Len(p) <= Len(q) /\ SubSeq(q, 1, Len(p)) = p

WholeDataset(dir) ==
    /\ {"encodings", "names", "info"} \subseteq DOMAIN dir
    /\ Len(dir.encodings) = Len(dir.names)
    /\ dir.info.readable
    /\ dir.info.student_count = Cardinality(Range(dir.names))
\* The dataset a build of one of the offered directories gives.
NewDataset(dir) ==
    /\ WholeDataset(dir)
    /\ \E directory \in OfferedDirectories :
        /\ dir.encodings = build(directory).known_face_encodings
        /\ dir.names = build(directory).known_face_names
        /\ dir.info.images_processed = build(directory).loaded_count

\* C23: whatever happens to a save, the directory of a dataset holds either
\* no file yet, or the complete dataset it held before, or the complete new
\* one, gallery and metadata belonging together.
C23_SaveIsAtomic ==
    \A ds \in DOMAIN encoding_sets :
        \/ DOMAIN encoding_sets[ds] = {}
        \/ ds \in DOMAIN SavedSets /\ encoding_sets[ds] = SavedSets[ds]
        \/ NewDataset(encoding_sets[ds])

\* C24: after delete the dataset is neither on disk nor in the list, and a
\* delete of a dataset that is not on disk reports no error.
C24_DeleteIsIdempotent ==
    [][delete_selected_encoding_set =>
          /\ last_op'.name \notin DOMAIN encoding_sets'
          /\ last_op'.name \notin encoding_sets_list'
          /\ last_op'.name \notin DOMAIN encoding_sets => last_op'.flag]_vars

\* ====================================================== builds on their own
\* A build of the new dataset cs103 was started on any image directory.
BuildInit ==
    /\ now = 0
    /\ present_students = <<>>
    /\ known_face_encodings = <<>>
    /\ known_face_names = <<>>
    /\ current_encoding_set = <<>>
    /\ camera_active = FALSE
    /\ face_recognition_thread = NoThread
    /\ fg_pc = "idle"
    /\ pending = <<>>
    /\ attendance_files = <<>>
    /\ encoding_sets = makedirs(SavedSets, "cs103")
    /\ encoding_sets_list = refresh_encoding_sets(SavedSets)
    /\ last_op = OtherOp
    /\ MatchIdle /\ QueryIdle /\ RunIdle
    /\ frame = NoFrame
    /\ \E directory \in Directories : load_thread = StartedLoadThread("cs103", directory)

BuildNext == LoadStudentsThread_run \/ save_encoding_set

SpecBuild == BuildInit /\ [][BuildNext]_vars

\* The label a file name stands for: the name without its extension and
\* without a trailing "_<number>".
Numbers == {"1", "2", "3"}
PersonOf(filename) ==
    LET stem == AllButLast(filename)
        n == Len(stem)
    IN IF n >= 3 /\ stem[n - 1] = "_" /\ stem[n] \in Numbers
       THEN text(SubSeq(stem, 1, n - 2))
       ELSE text(stem)

\* The files of the directory of the build that gave an encoding.
Contributing ==
    {i \in 1..Len(load_thread.directory) :
        /\ endswith_image(load_thread.directory[i].filename)
        /\ load_thread.directory[i].image.imread = "ok"
        /\ load_thread.directory[i].image.encodings # <<>>}
\* The image files that gave none.
Failing ==
    {i \in 1..Len(load_thread.directory) :
        endswith_image(load_thread.directory[i].filename) /\ i \notin Contributing}

\* C21: every image that contributes to the gallery does so under the label
\* of its person, which is not empty.
C21_LabelOfEveryImage ==
    load_thread.pc = "finished" =>
        /\ \A i \in Contributing :
               PersonOf(load_thread.directory[i].filename)
                   \in Range(load_thread.known_face_names)
        /\ \A j \in 1..Len(load_thread.known_face_names) :
               load_thread.known_face_names[j] # ""

\* The encodings of the contributing files of one label, in listing order.
RECURSIVE EncodingsOf(_, _)
EncodingsOf(name, i) ==
    IF i > Len(load_thread.directory) THEN <<>>
    ELSE (IF i \in Contributing /\ student_name(load_thread.directory[i].filename) = name
          THEN <<load_thread.directory[i].image.encodings[1]>>
          ELSE <<>>) \o EncodingsOf(name, i + 1)

\* C22: a finished build has emitted one averaged vector for each label that
\* had a contributing image, each label once, and the number of contributing
\* images; and every image that failed was reported.
C22_BuildSkipsAndReports ==
    load_thread.pc = "finished" =>
        /\ Len(load_thread.known_face_encodings) = Len(load_thread.known_face_names)
        /\ NoDuplicates(load_thread.known_face_names)
        /\ Range(load_thread.known_face_names) =
               {student_name(load_thread.directory[i].filename) : i \in Contributing}
        /\ \A j \in 1..Len(load_thread.known_face_names) :
               load_thread.known_face_encodings[j] =
                   mean(EncodingsOf(load_thread.known_face_names[j], 1))
        /\ load_thread.loaded_count = Cardinality(Contributing)
        /\ \A i \in Failing :
               \E k \in 1..Len(load_thread.progress) :
                   /\ load_thread.progress[k].filename = load_thread.directory[i].filename
                   /\ load_thread.progress[k].kind \in
                          {"Couldn't read image", "Error processing"}

\* ================================================= one frame after another
\* The frames of this specification: up to MaxFaces + 1 faces, each the face
\* of a student, of another student, or of nobody in the gallery.
FrameInputs == UNION {[1..n -> CameraFaces] : n \in 0..(MaxFaces + 1)}

\* face_locations_original, face1.py:67-68: one box for each face found.
face_locations_original(face_encodings) == [i \in 1..Len(face_encodings) |-> 2 * i]
\* recognized_names, face1.py:70-88
recognized_names(thread, face_encodings) ==
    [i \in 1..Len(face_encodings) |->
        match(thread.encodings, thread.names, face_encodings[i], thread.threshold)]

\* A recognition thread is in its loop, started on a stored dataset with a
\* threshold the settings accept.
FrameInit ==
    /\ now = 0
    /\ present_students = <<>>
    /\ \E ds \in {"cs101", "cs102"} :
        /\ known_face_encodings = StoredFiles[ds].encodings
        /\ known_face_names = StoredFiles[ds].names
        /\ current_encoding_set = <<ds>>
        /\ \E threshold \in MatchThresholds :
            face_recognition_thread =
                [pc |-> "read", running |-> TRUE, video_capture |-> "cap",
                 encodings |-> StoredFiles[ds].encodings, names |-> StoredFiles[ds].names,
                 threshold |-> threshold]
    /\ camera_active = TRUE
    /\ fg_pc = "idle"
    /\ pending = <<>>
    /\ attendance_files = <<>>
    /\ encoding_sets = StoredFiles
    /\ encoding_sets_list = refresh_encoding_sets(StoredFiles)
    /\ last_op = OtherOp
    /\ MatchIdle /\ QueryIdle
    /\ r_count = 1 /\ r_opened = TRUE /\ r_releases = 0
    /\ r_misused = FALSE /\ r_last = "none" /\ r_closing = FALSE
    /\ load_thread = NoLoadThread
    /\ frame = NoFrame

\* ret, frame = self.video_capture.read() giving a frame, and the faces
\* face_recognition finds in it.
run_read_frame ==
    /\ face_recognition_thread.pc = "read"
    /\ \E face_encodings \in FrameInputs :
        frame' = [face_encodings |-> face_encodings,
                  update_attendance |-> <<>>, update_frame |-> <<>>]
    /\ face_recognition_thread' = [face_recognition_thread EXCEPT !.pc = "process"]
    /\ r_last' = "read_ok"
    /\ UNCHANGED <<now, present_students, known_face_encodings, known_face_names,
                   current_encoding_set, camera_active, fg_pc, pending,
                   attendance_files, encoding_sets, last_op>>
    /\ UNCHANGED <<match_vars, query_vars, build_vars,
                   r_count, r_opened, r_releases, r_misused, r_closing>>

\* The inner try block for that frame, face1.py:57-94, with what it emits:
\* the update_attendance signals of the faces, then one update_frame signal;
\* or the resize, the conversion or the detection raises before any of it.
run_process_frame ==
    /\ face_recognition_thread.pc = "process"
    /\ \/ /\ r_last' = "frame_error"
          /\ UNCHANGED frame
       \/ /\ r_last' = "frame_ok"
          /\ frame' =
                 [frame EXCEPT
                      !.update_attendance =
                          FrameSignals(face_recognition_thread, frame.face_encodings, 1),
                      !.update_frame =
                          <<[face_locations |-> face_locations_original(frame.face_encodings),
                             names |-> recognized_names(face_recognition_thread,
                                                        frame.face_encodings),
                             encodings |-> frame.face_encodings]>>]
    /\ face_recognition_thread' = [face_recognition_thread EXCEPT !.pc = "read"]
    /\ UNCHANGED <<now, present_students, known_face_encodings, known_face_names,
                   current_encoding_set, camera_active, fg_pc, pending,
                   attendance_files, encoding_sets, last_op>>
    /\ UNCHANGED <<match_vars, query_vars, build_vars,
                   r_count, r_opened, r_releases, r_misused, r_closing>>

FrameNext == run_read_frame \/ run_process_frame

SpecFrame == FrameInit /\ [][FrameNext]_vars

\* The labels of a list that are not Unknown, in their order.
RECURSIVE KnownOf(_)
KnownOf(names) ==
    IF names = <<>> THEN <<>>
    ELSE (IF names[1] # Unknown THEN <<names[1]>> ELSE <<>>) \o KnownOf(Tail(names))

\* C25: for a processed frame with k faces the thread has emitted one identity
\* event for each face that is not Unknown, in the order of the faces, and
\* none for the others, and exactly one frame event with k boxes and k labels.
C25_EmissionsPerFrame ==
    (face_recognition_thread.pc = "read" /\ r_last = "frame_ok") =>
        LET k == Len(frame.face_encodings)
            names == recognized_names(face_recognition_thread, frame.face_encodings)
        IN /\ Len(frame.update_frame) = 1
           /\ Len(frame.update_frame[1].face_locations) = k
           /\ Len(frame.update_frame[1].names) = k
           /\ frame.update_frame[1].names = names
           /\ Len(frame.update_attendance) <= k
           /\ [i \in 1..Len(frame.update_attendance) |-> frame.update_attendance[i].name]
                  = KnownOf(names)
\* A frame with a stranger and student A gave one identity event, for A.
C25_Witness ==
    /\ face_recognition_thread.pc = "read" /\ r_last = "frame_ok"
    /\ frame.update_frame[1].names = <<Unknown, "A">>
    /\ Len(frame.update_attendance) = 1
    /\ frame.update_attendance[1].name = "A"

\* ================================== every foreground action around a run
\* closeEvent with no thread object (none was started yet, or the last one was
\* stopped): the program ends and is started again.
closeEvent_idle ==
    /\ fg_pc = "idle"
    /\ face_recognition_thread.pc = "none"
    /\ NewProcess

LifeNext ==
    \/ RunNext
    \/ delete_selected_encoding_set
    \/ clear_attendance
    \/ closeEvent_idle

SpecLife == Init /\ [][LifeNext]_vars

\* run() of the thread object has been entered and has not returned.
Alive(thread) == thread.pc \notin {"none", "done", "error"}
\* The capture of the current run is open: opened and not released.
CameraOpen == r_opened /\ r_releases = 0

\* C28: a recognition thread is created only when no other one is alive and
\* no camera handle is open, so there is never more than one of either; and
\* no thread is alive while camera_active is false.
C28_OneThreadOneCamera ==
    [][/\ (face_recognition_thread'.pc = "start"
              /\ face_recognition_thread' # face_recognition_thread) =>
                  /\ ~Alive(face_recognition_thread)
                  /\ ~CameraOpen
       /\ ~camera_active' => ~Alive(face_recognition_thread')]_vars
\* The second thread of a process is in its loop with the camera open, after
\* the loaded dataset was deleted under it.
C28_Witness ==
    /\ r_count = 2
    /\ Alive(face_recognition_thread) /\ face_recognition_thread.pc = "read"
    /\ CameraOpen
    /\ current_encoding_set = <<NoDataset>>
    /\ camera_active
====
